---- MODULE Spec2Model ----
(***************************************************************************)
(* Route planning and progress orchestration of App.tsx: handleFindRoute   *)
(* (the requestRoute operation), the current-location weather effect, the  *)
(* progress-simulation effect with its interval callback, and the          *)
(* remaining-duration effect.                                              *)
(*                                                                         *)
(* Every await of handleFindRoute is a suspension point: one action per    *)
(* continuation, taking the awaited call's outcome (a value or a throw)    *)
(* as its input.  React state setters between two awaits, the render they  *)
(* cause and the effects that render triggers are one atomic step.         *)
(*                                                                         *)
(* routeProgress is counted in steps of 0.005 (ProgressUnits steps = 1).   *)
(* The IEEE-754 sum of 200 increments of 0.005 is 1.0000000000000007, so   *)
(* the 200th tick is the one that clamps, as in the unit count; and for    *)
(* durations that are multiples of 200 (all of Durations) Math.round of    *)
(* the floating-point product equals the exact rounding used here.         *)
(***************************************************************************)
EXTENDS Integers, Sequences, FiniteSets

\* ---------------------------------------------------------------- bounds
\* Number of handleFindRoute invocations made by the user.
MaxCalls == 2
\* Spec only: interval ticks are followed up to this progress count.
MaxTicks == 3

\* ------------------------------------------------------------- constants
\* 1 / 0.005: the number of 0.005 increments that make routeProgress 1.
ProgressUnits == 200
\* useState defaults of routeDuration and routeDistance.
MockDuration == 7200
MockDistance == 2500

Invocations == 1..MaxCalls

\* JavaScript null / undefined.
Null == [null |-> TRUE]
\* useState<number | null>(null)
NullNumber == 0 - 1
\* useRef<NodeJS.Timeout | null>(null)
NoTimer == 0

\* `if (x)` on a number | null
Truthy(n) == n # NullNumber /\ n # 0

\* ------------------------------------------------------- external inputs
Texts == {"", " ", "A", "B"}
Durations == {0, 1200, 7200}
Distances == {1800}

\* A coordinate pair [lng, lat], in thousandths of a degree.
Coord(lng, lat) == [lng |-> lng, lat |-> lat]
DefaultLocation == Coord(0 - 73985, 40748)
PlaceA == Coord(1000, 2000)
PlaceB == Coord(3000, 4000)
Places == {PlaceA, PlaceB}

\* The outcome of an awaited call: a value, or a rejection.
Returned(v) == [ok |-> TRUE, value |-> v]
Thrown == [ok |-> FALSE]

\* geocodeLocation(text): the place of that name, no match, or a failure.
Gazetteer(text) ==
    IF text = "A" THEN PlaceA ELSE IF text = "B" THEN PlaceB ELSE Null
GeocodeOutcomes(text) == {Returned(Gazetteer(text)), Returned(Null), Thrown}

\* An array object: ref is its identity (each call returns a fresh array).
Array(ref, pts) == [ref |-> ref, pts |-> pts]
Route(coordinates, duration, distance) ==
    [coordinates |-> coordinates, duration |-> duration, distance |-> distance]

\* The path array that calculateRoute returns to invocation i.
RouteArray(i, start, end) == Array(i, <<start, end>>)

\* calculateRoute(start, end, prefs) of invocation i: no route, a route with
\* an empty path, a route from start to end, or a failure.
RouteOutcomes(i, start, end) ==
    {Returned(Null), Thrown}
      \cup {Returned(Route(Array(i, <<>>), d, 0)) : d \in {0}}
      \cup {Returned(Route(RouteArray(i, start, end), d, m)) :
              d \in Durations, m \in Distances}

\* fetchAccessibilityFeaturesForRoute(coordinates): the features near the
\* path, none, or a failure.
FeaturesNear(pts) ==
    IF pts = <<>> THEN {} ELSE {[type |-> "ramp", location |-> pts[1]]}
AccessOutcomes(coordinates) ==
    {Returned(FeaturesNear(coordinates.pts)), Returned({}), Thrown}

\* fetchWeatherData(lat, lng): a snapshot for that position, or a failure.
Snapshot(lat, lng) == [lat |-> lat, lon |-> lng]
WeatherOutcomes(lat, lng) == {Returned(Snapshot(lat, lng)), Thrown}

\* ---------------------------------------------------------------- messages
\* An error message is the sequence of the parts of its (template) string.
NoError == <<>>
InputMsg == <<"Please enter both start location and destination">>
NotFoundMsg(text) == <<"Could not find location: ", text>>
NoRouteMsg == <<"Could not find an accessible route between these locations">>
UnknownMsg == <<"An error occurred while finding the route">>

\* ------------------------------------------------------------------- state
VARIABLES
    routeCoordinates,        \* useState: the published path
    routeDuration,           \* useState: displayed (remaining) duration
    routeDistance,           \* useState
    isCalculatingRoute,      \* useState
    routeError,              \* useState
    initialDuration,         \* useState
    routeProgress,           \* useState, in steps of 0.005
    simulationIntervalRef,   \* useRef: handle of the last interval set
    accessibilityFeatures,   \* useState
    isLoadingFeatures,       \* useState
    weatherData,             \* useState
    currentLocation,         \* useState
    timers,                  \* the intervals that are set and not cleared
    simCleanup,              \* the simulation effect's last run returned a cleanup
    locWeather,              \* pending fetches of fetchCurrentLocationWeather
    pc,                      \* per invocation: the await it is suspended at
    loc,                     \* per invocation: its arguments and locals
    issued,                  \* per invocation: the external calls it has made
    settled                  \* the awaited call that settled last, and its outcome

routeVars == <<routeCoordinates, routeDuration, routeDistance, initialDuration>>
simVars == <<routeProgress, simulationIntervalRef, timers, simCleanup>>
enrichVars == <<accessibilityFeatures, isLoadingFeatures, weatherData,
                currentLocation, locWeather>>
uiVars == <<isCalculatingRoute, routeError>>
invVars == <<pc, loc, issued>>
\* settled.inv is the invocation, 0 for fetchCurrentLocationWeather.
Settled(i, out) == [inv |-> i, out |-> out]
vars == <<routeVars, simVars, enrichVars, uiVars, invVars, settled>>

NoLocals == [startLocation |-> "", destination |-> "",
             startCoords |-> Null, endCoords |-> Null]

Arguments(startLocation, destination) ==
    [NoLocals EXCEPT !.startLocation = startLocation,
                     !.destination = destination]

LocCoords == Places \cup {DefaultLocation}

Init ==
    /\ routeCoordinates = Array(0, <<>>)
    /\ routeDuration = MockDuration
    /\ routeDistance = MockDistance
    /\ isCalculatingRoute = FALSE
    /\ routeError = NoError
    /\ initialDuration = NullNumber
    /\ routeProgress = 0
    /\ simulationIntervalRef = NoTimer
    /\ accessibilityFeatures = {}
    /\ isLoadingFeatures = FALSE
    /\ weatherData = Null
    /\ currentLocation = DefaultLocation
    /\ timers = {}
    /\ simCleanup = FALSE
    \* the mount effect has called fetchCurrentLocationWeather once
    /\ locWeather = [c \in LocCoords |-> IF c = DefaultLocation THEN 1 ELSE 0]
    /\ pc = [i \in Invocations |-> "idle"]
    /\ loc = [i \in Invocations |-> NoLocals]
    /\ issued = [i \in Invocations |-> {}]
    /\ settled = Settled(0, Thrown)

\* ----------------------------------------------------------------- effects
\* Math.round(initialDuration * (1 - routeProgress)), progress in 0.005 steps.
RoundRemaining(duration, progress) ==
    (2 * duration * (ProgressUnits - progress) + ProgressUnits)
        \div (2 * ProgressUnits)

\* The remaining-duration effect's body: the new routeDuration.
RemainingDuration_FromCurrent(initDur, progress, current) ==
    IF Truthy(initDur) /\ progress < ProgressUnits
    THEN RoundRemaining(current, progress)
    ELSE current
RemainingDuration(initDur, progress, current) ==
    IF Truthy(initDur) /\ progress < ProgressUnits
    THEN RoundRemaining(initDur, progress)
    ELSE current

\* The effect runs when one of its dependencies has changed: the routeDuration
\* after a render with the given progress and initial duration, duration
\* being what the handler has set.
RemainingDurationEffect(progress, initDur, duration) ==
    IF progress # routeProgress \/ initDur # initialDuration
    THEN RemainingDuration(initDur, progress, duration)
    ELSE duration

\* setInterval returns a handle no live or remembered interval has.
NewTimer(live) ==
    CHOOSE t \in 1..(Cardinality(live) + 2) :
        t \notin live /\ t # simulationIntervalRef

\* The simulation effect re-run for a new routeCoordinates array: the previous
\* run's cleanup, then the body.  progress is what the handler has set.
SimulationEffect_NoClear(coordinates, initDur, progress) ==
    IF Len(coordinates.pts) > 0 /\ Truthy(initDur)
    THEN /\ routeProgress' = 0
         /\ timers' = timers \cup {NewTimer(timers)}
         /\ simulationIntervalRef' = NewTimer(timers)
         /\ simCleanup' = TRUE
    ELSE /\ routeProgress' = progress
         /\ timers' = timers
         /\ simulationIntervalRef' = simulationIntervalRef
         /\ simCleanup' = FALSE
SimulationEffect(coordinates, initDur, progress) ==
    LET afterCleanup ==
            IF simCleanup /\ simulationIntervalRef # NoTimer
            THEN timers \ {simulationIntervalRef} ELSE timers
    IN  IF Len(coordinates.pts) > 0 /\ Truthy(initDur)
        THEN LET cleared == IF simulationIntervalRef # NoTimer
                            THEN afterCleanup \ {simulationIntervalRef}
                            ELSE afterCleanup
                 t == NewTimer(cleared)
             IN  /\ routeProgress' = 0
                 /\ timers' = cleared \cup {t}
                 /\ simulationIntervalRef' = t
                 /\ simCleanup' = TRUE
        ELSE /\ routeProgress' = progress
             /\ timers' = afterCleanup
             /\ simulationIntervalRef' = simulationIntervalRef
             /\ simCleanup' = FALSE

\* The interval callback's updater: the new progress.
NewProgress(prev) ==
    IF prev + 1 >= ProgressUnits THEN ProgressUnits ELSE prev + 1

\* Lines 208-211: the updater clears the interval the ref holds.
TimersAfterTick_NoClear(prev) == timers
TimersAfterTick(prev) ==
    IF prev + 1 >= ProgressUnits /\ simulationIntervalRef # NoTimer
    THEN timers \ {simulationIntervalRef}
    ELSE timers

\* The interval callback of timer t fires.
IntervalCallback(t) ==
    /\ t \in timers
    /\ routeProgress' = NewProgress(routeProgress)
    /\ timers' = TimersAfterTick(routeProgress)
    /\ routeDuration' = RemainingDurationEffect(NewProgress(routeProgress),
                                                initialDuration, routeDuration)
    /\ UNCHANGED <<routeCoordinates, routeDistance, initialDuration,
                   simulationIntervalRef, simCleanup, enrichVars, uiVars,
                   invVars, settled>>

\* --------------------------------------------------------- handleFindRoute
\* The function returns: its locals are gone (the arguments it was called
\* with stay on record).
Return(i) ==
    /\ pc' = [pc EXCEPT ![i] = "done"]
    /\ loc' = [loc EXCEPT ![i].startCoords = Null, ![i].endCoords = Null]

\* An early return with a message (the finally block then runs).
FailWith(i, message) ==
    /\ routeError' = message
    /\ isCalculatingRoute' = FALSE
    /\ Return(i)
    /\ UNCHANGED <<routeVars, simVars, enrichVars, issued>>

\* catch (error) { ... } finally { ... } of the outer try.
CatchFinally_NoFinally(i) ==
    /\ routeError' = UnknownMsg
    /\ Return(i)
    /\ UNCHANGED <<routeVars, simVars, enrichVars, issued, isCalculatingRoute>>
CatchFinally(i) == FailWith(i, UnknownMsg)

\* The await of a call: the call is made and the invocation suspends.
Await(i, call, at) ==
    /\ issued' = [issued EXCEPT ![i] = @ \cup {call}]
    /\ pc' = [pc EXCEPT ![i] = at]

\* Line 91: `!startLocation || !destination`
MissingInput_DestinationOnly(startLocation, destination) == destination = ""
MissingInput(startLocation, destination) ==
    startLocation = "" \/ destination = ""

\* Lines 90-101: the call itself, up to the first await.
HandleFindRoute(i, startLocation, destination) ==
    /\ pc[i] = "idle"
    /\ \A j \in Invocations : j < i => pc[j] # "idle"
    /\ IF MissingInput(startLocation, destination)
       THEN /\ routeError' = InputMsg
            /\ pc' = [pc EXCEPT ![i] = "done"]
            /\ loc' = [loc EXCEPT ![i] = Arguments(startLocation, destination)]
            /\ UNCHANGED <<routeVars, simVars, enrichVars, isCalculatingRoute,
                           issued, settled>>
       ELSE /\ isCalculatingRoute' = TRUE
            /\ routeError' = NoError
            /\ loc' = [loc EXCEPT ![i] = Arguments(startLocation, destination)]
            /\ Await(i, "geocodeStart", "geoStart")
            /\ UNCHANGED <<routeVars, simVars, enrichVars, settled>>

\* Lines 101-102: geocodeLocation(startLocation) settles.
GeocodeStartSettles_SkipsDest(i, out) ==
    /\ settled' = Settled(i, out)
    /\ pc[i] = "geoStart"
    /\ IF out.ok /\ out.value # Null
       THEN /\ loc' = [loc EXCEPT ![i].startCoords = out.value,
                                  ![i].endCoords = out.value]
            /\ Await(i, "calculateRoute", "routing")
            /\ UNCHANGED <<routeVars, simVars, enrichVars, uiVars>>
       ELSE CatchFinally(i)
GeocodeStartSettles(i, out) ==
    /\ settled' = Settled(i, out)
    /\ pc[i] = "geoStart"
    /\ IF out.ok
       THEN /\ loc' = [loc EXCEPT ![i].startCoords = out.value]
            /\ Await(i, "geocodeDest", "geoDest")
            /\ UNCHANGED <<routeVars, simVars, enrichVars, uiVars>>
       ELSE CatchFinally(i)

\* Lines 102-117: geocodeLocation(destination) settles.
GeocodeDestSettles(i, out) ==
    /\ settled' = Settled(i, out)
    /\ pc[i] = "geoDest"
    /\ IF ~out.ok
       THEN CatchFinally(i)
       ELSE IF loc[i].startCoords = Null
       THEN FailWith(i, NotFoundMsg(loc[i].startLocation))
       ELSE IF out.value = Null
       THEN FailWith(i, NotFoundMsg(loc[i].destination))
       ELSE /\ loc' = [loc EXCEPT ![i].endCoords = out.value]
            /\ Await(i, "calculateRoute", "routing")
            /\ UNCHANGED <<routeVars, simVars, enrichVars, uiVars>>

\* `!route || route.coordinates.length === 0`
NoUsableRoute_NullOnly(route) == route = Null
NoUsableRoute(route) ==
    route = Null \/ Len(route.coordinates.pts) = 0

\* Lines 126-130 and the effects of the render they cause.
PublishRoute(route) ==
    /\ routeCoordinates' = route.coordinates
    /\ initialDuration' = route.duration
    /\ routeDistance' = route.distance
    /\ SimulationEffect(route.coordinates, route.duration, 0)
    /\ routeDuration' = RemainingDurationEffect(0, route.duration, route.duration)

\* Lines 117-141: calculateRoute settles.
RouteSettles(i, out) ==
    /\ settled' = Settled(i, out)
    /\ pc[i] = "routing"
    /\ IF ~out.ok
       THEN CatchFinally(i)
       ELSE IF NoUsableRoute(out.value)
       THEN FailWith(i, NoRouteMsg)
       ELSE /\ PublishRoute(out.value)
            /\ isLoadingFeatures' = TRUE
            /\ Await(i, "fetchAccessibilityFeatures", "access")
            /\ UNCHANGED <<accessibilityFeatures, weatherData, currentLocation,
                           locWeather, uiVars, loc>>

\* Lines 141-155: fetchAccessibilityFeaturesForRoute settles; the catch logs.
FeaturesAfter(out) ==
    IF out.ok THEN out.value ELSE accessibilityFeatures

AccessResumes(i, out) ==
    /\ accessibilityFeatures' = FeaturesAfter(out)
    /\ isLoadingFeatures' = FALSE
    /\ Await(i, "fetchWeatherData", "weather")
    /\ UNCHANGED <<routeVars, simVars, weatherData, currentLocation,
                   locWeather, uiVars, loc>>

AccessSettles_NoInnerTry(i, out) ==
    /\ settled' = Settled(i, out)
    /\ pc[i] = "access"
    /\ IF out.ok
       THEN AccessResumes(i, out)
       ELSE CatchFinally(i)
AccessSettles(i, out) ==
    /\ settled' = Settled(i, out)
    /\ pc[i] = "access"
    /\ AccessResumes(i, out)

\* fetchCurrentLocationWeather is called by the [currentLocation] effect.
CurrentLocationEffect(location) ==
    locWeather' = [locWeather EXCEPT ![location] = @ + 1]

\* Lines 153-171: fetchWeatherData(startCoords[1], startCoords[0]) settles;
\* the catch logs; then the outer finally.
WeatherSettles(i, out) ==
    /\ settled' = Settled(i, out)
    /\ pc[i] = "weather"
    /\ IF out.ok
       THEN /\ weatherData' = out.value
            /\ currentLocation' = Coord(loc[i].startCoords.lng,
                                        loc[i].startCoords.lat)
            /\ CurrentLocationEffect(currentLocation')
       ELSE UNCHANGED <<weatherData, currentLocation, locWeather>>
    /\ isCalculatingRoute' = FALSE
    /\ Return(i)
    /\ UNCHANGED <<routeVars, simVars, accessibilityFeatures,
                   isLoadingFeatures, routeError, issued>>

\* Lines 70-81: a fetch of fetchCurrentLocationWeather for location settles.
WeatherAfter_NullOnFailure(out) ==
    IF out.ok THEN out.value ELSE Null
WeatherAfter(out) ==
    IF out.ok THEN out.value ELSE weatherData

CurrentLocationWeatherSettles_ClearsFlag(location, out) ==
    /\ settled' = Settled(0, out)
    /\ locWeather[location] > 0
    /\ locWeather' = [locWeather EXCEPT ![location] = @ - 1]
    /\ weatherData' = WeatherAfter(out)
    /\ isCalculatingRoute' = FALSE
    /\ UNCHANGED <<routeVars, simVars, accessibilityFeatures,
                   isLoadingFeatures, currentLocation, routeError, invVars>>
CurrentLocationWeatherSettles(location, out) ==
    /\ settled' = Settled(0, out)
    /\ locWeather[location] > 0
    /\ locWeather' = [locWeather EXCEPT ![location] = @ - 1]
    /\ weatherData' = WeatherAfter(out)
    /\ UNCHANGED <<routeVars, simVars, accessibilityFeatures,
                   isLoadingFeatures, currentLocation, uiVars, invVars>>

\* ---------------------------------------------------------- specifications
Call == \E i \in Invocations, s \in Texts, d \in Texts : HandleFindRoute(i, s, d)
GeocodeStart ==
    \E i \in Invocations :
        /\ pc[i] = "geoStart"
        /\ \E out \in GeocodeOutcomes(loc[i].startLocation) :
               GeocodeStartSettles(i, out)
GeocodeDest ==
    \E i \in Invocations :
        /\ pc[i] = "geoDest"
        /\ \E out \in GeocodeOutcomes(loc[i].destination) :
               GeocodeDestSettles(i, out)
Routing ==
    \E i \in Invocations :
        /\ pc[i] = "routing"
        /\ \E out \in RouteOutcomes(i, loc[i].startCoords, loc[i].endCoords) :
               RouteSettles(i, out)
Access ==
    \E i \in Invocations :
        /\ pc[i] = "access"
        /\ \E out \in AccessOutcomes(RouteArray(i, loc[i].startCoords, loc[i].endCoords)) : AccessSettles(i, out)
Weather ==
    \E i \in Invocations :
        /\ pc[i] = "weather"
        /\ \E out \in WeatherOutcomes(loc[i].startCoords.lat,
                                      loc[i].startCoords.lng) :
               WeatherSettles(i, out)
LocationWeather ==
    \E c \in LocCoords : \E out \in WeatherOutcomes(c.lat, c.lng) :
        CurrentLocationWeatherSettles(c, out)

\* Overlapping invocations; the simulation is followed for MaxTicks ticks.
Tick == \E t \in timers : routeProgress < MaxTicks /\ IntervalCallback(t)

Next ==
    \/ Call
    \/ GeocodeStart
    \/ GeocodeDest
    \/ Routing
    \/ Access
    \/ Weather
    \/ LocationWeather
    \/ Tick

Spec == Init /\ [][Next]_vars

\* One invocation at a time (the panel is disabled while isCalculatingRoute),
\* for the texts below; the simulation runs to completion.  The simulation
\* state is written only by route publication and by the interval callback,
\* and every order of publications and ticks occurs here.
SimStarts == {"A"}
SimDestinations == {"", "B"}
SeqCall ==
    /\ \A j \in Invocations : pc[j] \in {"idle", "done"}
    /\ \E i \in Invocations, s \in SimStarts, d \in SimDestinations :
           HandleFindRoute(i, s, d)
SimTick == \E t \in timers : IntervalCallback(t)

SimNext ==
    \/ SeqCall
    \/ GeocodeStart
    \/ GeocodeDest
    \/ Routing
    \/ Access
    \/ Weather
    \/ LocationWeather
    \/ SimTick

SimSpec == Init /\ [][SimNext]_vars

\* ------------------------------------------------------------ properties
\* The message contains the text.
Names(message, text) == \E k \in 1..Len(message) : message[k] = text

\* Invocation i, having set the calculating flag, terminates in this step.
Ends(i) == pc[i] \notin {"idle", "done"} /\ pc'[i] = "done"

\* The awaited call of invocation i at `at` settles in this step.
Resumes(i, at) == pc[i] = at /\ pc'[i] # at

\* C1: on every exit path of an invocation that has set the calculating flag
\* (not found, no route, an exception, success with or without enrichment
\* failure), the flag is false when the invocation has terminated.
C1_FlagClearedOnEveryExit ==
    [][\A i \in Invocations : Ends(i) => isCalculatingRoute' = FALSE]_vars

\* An invocation has ended in the outer catch, calculateRoute having thrown.
C1_Witness ==
    \E i \in Invocations :
        /\ pc[i] = "done"
        /\ "calculateRoute" \in issued[i]
        /\ "fetchAccessibilityFeatures" \notin issued[i]
        /\ settled.inv = i
        /\ ~settled.out.ok
        /\ routeError = UnknownMsg
        /\ ~isCalculatingRoute

\* C2: once a later invocation has published its route and its own feature
\* set (weather snapshot) has arrived and is held, the result of an earlier
\* invocation's accessibility (weather) fetch that arrives afterwards is
\* discarded: the later invocation's feature set (snapshot) stays held.
C2_StaleResultsDiscarded ==
    [][\A i \in Invocations :
         LET j == routeCoordinates.ref
             start == routeCoordinates.pts[1]
         IN  (j # i /\ j \in Invocations)
             => /\ (/\ Resumes(i, "access")
                    /\ pc[j] \in {"weather", "done"}
                    /\ accessibilityFeatures = FeaturesNear(routeCoordinates.pts))
                   => accessibilityFeatures' = accessibilityFeatures
                /\ (/\ Resumes(i, "weather")
                    /\ pc[j] = "done"
                    /\ weatherData = Snapshot(start.lat, start.lng))
                   => weatherData' = weatherData]_vars

\* C3: a call with an empty startText ends at once with the input error,
\* makes no external call, and leaves the route, the progress state, the
\* enrichment state and the calculating flag as they were.
C3_EmptyStartRejected ==
    [][\A i \in Invocations :
         (pc[i] = "idle" /\ pc'[i] # "idle" /\ loc'[i].startLocation = "")
         => /\ pc'[i] = "done"
            /\ routeError' = InputMsg
            /\ issued' = issued
            /\ UNCHANGED <<routeVars, simVars, enrichVars, isCalculatingRoute>>]_vars

\* A call with an empty start and a destination has been rejected while an
\* earlier invocation, with its route published, was still calculating.
C3_Witness ==
    \E i \in Invocations :
        /\ pc[i] = "done"
        /\ loc[i].startLocation = ""
        /\ loc[i].destination = "B"
        /\ issued[i] = {}
        /\ routeError = InputMsg
        /\ isCalculatingRoute
        /\ Len(routeCoordinates.pts) > 0

\* C4: when geocoding of startText has returned no match, the invocation ends
\* with an error message that contains startText, and it has not called
\* calculateRoute.
C4_StartNotFoundNamesStart ==
    [][\A i \in Invocations :
         (pc[i] = "geoDest" /\ loc[i].startCoords = Null /\ pc'[i] # "geoDest")
         => /\ pc'[i] = "done"
            /\ Names(routeError', loc[i].startLocation)
            /\ "calculateRoute" \notin issued'[i]]_vars

\* `!route || route.coordinates.length === 0`, as claim C5 words it.
NoRouteOrEmptyPath(value) ==
    IF value = Null THEN TRUE ELSE value.coordinates.pts = <<>>

\* C5: when calculateRoute returns no route or a route with an empty path,
\* the invocation ends with the 'no accessible route' error and leaves the
\* published route (path, initial duration, duration, distance) and the
\* progress state unmodified.
C5_NoRouteLeavesRouteAndProgress ==
    [][\A i \in Invocations :
         (/\ Resumes(i, "routing")
          /\ settled'.out.ok
          /\ NoRouteOrEmptyPath(settled'.out.value))
         => /\ pc'[i] = "done"
            /\ routeError' = NoRouteMsg
            /\ UNCHANGED <<routeVars, simVars>>]_vars

\* An invocation got a route with an empty path and ended with the error,
\* the earlier invocation's route and its progress still held.
C5_Witness ==
    \E i \in Invocations :
        /\ pc[i] = "done"
        /\ "calculateRoute" \in issued[i]
        /\ "fetchAccessibilityFeatures" \notin issued[i]
        /\ settled.inv = i
        /\ settled.out.ok
        /\ settled.out.value # Null
        /\ settled.out.value.coordinates.pts = <<>>
        /\ routeError = NoRouteMsg
        /\ routeCoordinates.ref \notin {0, i}
        /\ Len(routeCoordinates.pts) > 0
        /\ routeProgress > 0

\* C6: publication sets the new route and progress 0; when the accessibility
\* fetch then throws, the invocation goes on, the route and the progress state
\* stay published, the error output is not set by that step nor by the rest
\* of the invocation, and an empty feature set stays empty.
C6_AccessFailureIsSilent ==
    /\ [][\A i \in Invocations :
            /\ (Resumes(i, "routing") /\ pc'[i] = "access")
               => /\ routeCoordinates' = settled'.out.value.coordinates
                  /\ initialDuration' = settled'.out.value.duration
                  /\ routeProgress' = 0
                  /\ routeError' = routeError
            /\ (Resumes(i, "access") /\ ~settled'.out.ok)
               => /\ pc'[i] = "weather"
                  /\ UNCHANGED <<routeVars, simVars>>
                  /\ routeError' = routeError
                  /\ accessibilityFeatures = {} => accessibilityFeatures' = {}
            /\ Resumes(i, "weather") => routeError' = routeError]_vars
    \* with no other invocation made, from the accessibility fetch on
    /\ [](\A i \in Invocations :
            (/\ \A j \in Invocations \ {i} : pc[j] = "idle"
             /\ "fetchWeatherData" \in issued[i])
            => /\ routeError = NoError
               /\ routeCoordinates.ref = i
               /\ Len(routeCoordinates.pts) > 0)

\* The accessibility fetch of the only invocation made has just thrown: its
\* route is published, running, and no error and no feature is held.
C6_Witness ==
    \E i \in Invocations :
        /\ pc[i] = "weather"
        /\ \A j \in Invocations \ {i} : pc[j] = "idle"
        /\ settled.inv = i
        /\ ~settled.out.ok
        /\ routeCoordinates.ref = i
        /\ Len(routeCoordinates.pts) > 0
        /\ initialDuration = 7200
        /\ timers # {}
        /\ routeError = NoError
        /\ accessibilityFeatures = {}

\* A route is published in this step.
Publishes == \E i \in Invocations : Resumes(i, "routing") /\ pc'[i] = "access"

\* C7: progress is 0 when a route is accepted, stays within [0, 1], decreases
\* only when a route is accepted, a tick that would reach 1 sets it to
\* exactly 1 and leaves no interval set, and with progress at 1 no interval
\* is set (so no tick occurs until another route is accepted).
C7_ProgressRun ==
    /\ [](/\ routeProgress \in 0..ProgressUnits
          /\ routeProgress = ProgressUnits => timers = {})
    /\ [][/\ Publishes => routeProgress' = 0
          /\ routeProgress' < routeProgress => Publishes
          /\ (routeProgress' > routeProgress
                /\ routeProgress + 1 >= ProgressUnits)
             => routeProgress' = ProgressUnits /\ timers' = {}]_vars

\* A simulation has run to completion.
C7_Witness ==
    /\ routeProgress = ProgressUnits
    /\ timers = {}
    /\ initialDuration = 7200
    /\ Len(routeCoordinates.pts) > 0

\* r is x rounded to the nearest integer, halves up, for x = num / den.
IsRounded(r, num, den) ==
    (2 * r - 1) * den <= 2 * num /\ 2 * num < (2 * r + 1) * den

\* C8: after every tick that leaves progress below 1, the displayed duration
\* is round(initialDuration * (1 - progress)) of the duration captured at
\* acceptance; with 7200 s, after 10 ticks (progress 0.05) it is 6840.
C8_RemainingFromInitial ==
    /\ [](routeProgress = 10 /\ initialDuration = 7200 => routeDuration = 6840)
    /\ [][(routeProgress' > routeProgress /\ routeProgress' < ProgressUnits)
          => IsRounded(routeDuration',
                       initialDuration' * (ProgressUnits - routeProgress'),
                       ProgressUnits)]_vars

\* Ten ticks into a route of 7200 s.
C8_Witness ==
    /\ routeProgress = 10
    /\ initialDuration = 7200
    /\ routeDuration = 6840
    /\ timers # {}

\* text.trim()
Trim(text) == IF text = " " THEN "" ELSE text

\* C9: an invocation whose start or destination text is empty after trimming
\* has been rejected: it has made no call (the geocoder is not invoked).
C9_BlankInputRejected ==
    \A i \in Invocations :
        (pc[i] # "idle"
           /\ (Trim(loc[i].startLocation) = "" \/ Trim(loc[i].destination) = ""))
        => pc[i] = "done" /\ issued[i] = {}

\* The texts of the endpoints whose geocoding has failed (no match, or a
\* failed call) when invocation i leaves `at` with the outcome `out`.
FailedEndpoints(i, at, out) ==
    (IF at = "geoStart" \/ loc[i].startCoords = Null
     THEN {loc[i].startLocation} ELSE {})
      \cup (IF at = "geoDest" /\ (IF out.ok THEN out.value = Null ELSE TRUE)
            THEN {loc[i].destination} ELSE {})

\* C10: when the geocoding of an endpoint fails, by no match or by a failed
\* call, the invocation ends with an error message that names a failing
\* endpoint's text, and calculateRoute is not called.
C10_GeocodeFailureNamesEndpoint ==
    [][\A i \in Invocations : \A at \in {"geoStart", "geoDest"} :
         (Resumes(i, at) /\ pc'[i] = "done")
         => /\ \E text \in FailedEndpoints(i, at, settled'.out) :
                   Names(routeError', text)
            /\ "calculateRoute" \notin issued'[i]]_vars

\* A fetch of fetchCurrentLocationWeather for c settles in this step.
CurrentWeatherArrives(c) == locWeather'[c] = locWeather[c] - 1

\* C11: a response of the current-location weather fetch, successful or
\* failed, whatever the invocations of handleFindRoute are doing, leaves the
\* route path, duration, distance, initial duration, the progress, the
\* feature set, the calculating flag and the error output unchanged.
C11_CurrentWeatherWritesOnlyWeather ==
    [][(\E c \in LocCoords : CurrentWeatherArrives(c))
       => UNCHANGED <<routeVars, routeProgress, accessibilityFeatures,
                      isCalculatingRoute, routeError>>]_vars

\* The startup fetch has succeeded while an invocation, its route published
\* and running, was awaiting the accessibility features.
C11_Witness ==
    \E i \in Invocations :
        /\ pc[i] = "access"
        /\ settled.inv = 0
        /\ settled.out.ok
        /\ weatherData = Snapshot(DefaultLocation.lat, DefaultLocation.lng)
        /\ locWeather[DefaultLocation] = 0
        /\ isCalculatingRoute
        /\ routeCoordinates.ref = i
        /\ routeProgress > 0

\* Invocation i makes the external call in this step.
Starts(i, call) == call \notin issued[i] /\ call \in issued'[i]

\* calculateRoute has just returned a route with a non-empty path to i.
UsableRouteReturned(i) ==
    /\ Resumes(i, "routing")
    /\ settled'.inv = i
    /\ settled'.out.ok
    /\ ~NoRouteOrEmptyPath(settled'.out.value)

\* C12: within one invocation calculateRoute is called only in the step in
\* which the second geocoding returns, both geocodings having been made and
\* having returned coordinates; the accessibility fetch and the interval of
\* that route are started only in the step in which calculateRoute returns a
\* route with a non-empty path; and the route weather fetch only after that.
C12_StepsStrictlyOrdered ==
    [][\A i \in Invocations :
         /\ Starts(i, "calculateRoute")
            => /\ {"geocodeStart", "geocodeDest"} \subseteq issued[i]
               /\ Resumes(i, "geoDest")
               /\ settled'.inv = i
               /\ settled'.out.ok
               /\ loc'[i].startCoords \in Places
               /\ loc'[i].endCoords \in Places
         /\ Starts(i, "fetchAccessibilityFeatures")
            => "calculateRoute" \in issued[i] /\ UsableRouteReturned(i)
         /\ Starts(i, "fetchWeatherData")
            => /\ {"calculateRoute", "fetchAccessibilityFeatures"}
                     \subseteq issued[i]
               /\ pc[i] \notin {"geoStart", "geoDest", "routing"}
         /\ (timers' \ timers # {} /\ routeCoordinates'.ref = i)
            => "calculateRoute" \in issued[i] /\ UsableRouteReturned(i)]_vars

\* An invocation has gone through every step and its simulation runs.
C12_Witness ==
    \E i \in Invocations :
        /\ pc[i] = "done"
        /\ issued[i] = {"geocodeStart", "geocodeDest", "calculateRoute",
                        "fetchAccessibilityFeatures", "fetchWeatherData"}
        /\ routeCoordinates.ref = i
        /\ timers # {}
        /\ routeProgress > 0

\* C13: at most one interval is set at any time, and it is the one the ref
\* holds; the publication of a route leaves none of the intervals that were
\* set before it (a running one is cleared before the new one is set) and
\* progress 0; and progress advances only by one step of 0.005 at a time, in
\* a step that publishes nothing, while the interval of the latest
\* publication is set: a cleared interval advances nothing.
C13_OneTimer ==
    /\ [](Cardinality(timers) <= 1 /\ timers \subseteq {simulationIntervalRef})
    /\ [][/\ Publishes => (timers' \cap timers = {} /\ routeProgress' = 0)
          /\ timers' \ timers # {} => Publishes
          /\ routeProgress' > routeProgress
             => /\ routeProgress' = routeProgress + 1
                /\ ~Publishes
                /\ timers = {simulationIntervalRef}
                /\ simulationIntervalRef' = simulationIntervalRef]_vars

\* A second route was published while the first one's simulation was running
\* (its invocation still awaits the accessibility features): the second
\* interval is the only one set and has ticked twice.
C13_Witness ==
    \E i, j \in Invocations :
        /\ i # j
        /\ pc[i] = "access"
        /\ routeCoordinates.ref = j
        /\ simulationIntervalRef = 2
        /\ timers = {2}
        /\ routeProgress = 2

\* C14: the route weather fetch does not wait for the accessibility fetch:
\* whenever an invocation has made its accessibility fetch, also while that
\* fetch has not settled, it has made its route weather fetch.
C14_WeatherIssuedWithAccess ==
    \A i \in Invocations :
        "fetchAccessibilityFeatures" \in issued[i]
        => "fetchWeatherData" \in issued[i]

\* C15: the feature set an accessibility fetch returns replaces the held set
\* as a whole, and when the fetch of a published route fails, no other
\* invocation being in flight, the held set is empty afterwards, whatever an
\* earlier route had left.
C15_FailedFetchEmptiesFeatures ==
    [][\A i \in Invocations :
         /\ (Resumes(i, "access") /\ settled'.out.ok)
            => accessibilityFeatures' = settled'.out.value
         /\ (/\ Resumes(i, "access")
             /\ ~settled'.out.ok
             /\ \A j \in Invocations \ {i} : pc[j] \in {"idle", "done"})
            => accessibilityFeatures' = {}]_vars

\* C16: a weather fetch that fails, the route one of an invocation or a
\* current-location one, leaves the held snapshot as it was (null when none
\* was loaded), the error output, the published route and the simulation.
C16_WeatherFailureIsSilent ==
    [][(~settled'.out.ok
          /\ \/ \E i \in Invocations : Resumes(i, "weather")
             \/ \E c \in LocCoords : CurrentWeatherArrives(c))
       => UNCHANGED <<weatherData, currentLocation, routeError, routeVars,
                      simVars>>]_vars

\* The startup fetch has failed and now the route weather fetch of an
\* invocation has: no snapshot is held, no error is shown, the route is
\* published and its simulation runs.
C16_Witness ==
    \E i \in Invocations :
        /\ pc[i] = "done"
        /\ "fetchWeatherData" \in issued[i]
        /\ settled.inv = i
        /\ ~settled.out.ok
        /\ locWeather[DefaultLocation] = 0
        /\ weatherData = Null
        /\ routeError = NoError
        /\ routeCoordinates.ref = i
        /\ timers # {}
        /\ routeProgress > 0

\* C17: once progress has reached 1 it stays 1 until a route is published,
\* and the displayed duration is then round(initialDuration * (1 - 1)) = 0.
C17_CompletedRemainingIsZero ==
    /\ [](routeProgress = ProgressUnits
            => /\ routeDuration = 0
               /\ IsRounded(routeDuration,
                            initialDuration * (ProgressUnits - routeProgress),
                            ProgressUnits))
    /\ [][(routeProgress = ProgressUnits /\ routeProgress' # ProgressUnits)
          => Publishes]_vars

\* C18: every route an invocation publishes has a non-empty path, a positive
\* duration and a distance that is not negative, whatever calculateRoute has
\* returned, and an interval is set only for a route of positive duration.
C18_PublishedRouteIsValid ==
    [][/\ Publishes
          => /\ Len(routeCoordinates'.pts) > 0
             /\ initialDuration' > 0
             /\ routeDistance' >= 0
       /\ timers' \ timers # {} => initialDuration' > 0]_vars

\* C19: when the snapshot of the latest route's start (the current location)
\* is held, a response of a current-location fetch that was made for an
\* earlier location (the startup one, or an earlier route's start) and
\* arrives only now does not replace it.
C19_LateCurrentWeatherDiscarded ==
    [][\A c \in LocCoords :
         (/\ CurrentWeatherArrives(c)
          /\ c # currentLocation
          /\ weatherData = Snapshot(currentLocation.lat, currentLocation.lng))
         => weatherData' = weatherData]_vars

\* C20: the calculating flag is true in every state in which some invocation
\* has passed the input validation and has not terminated, also when another
\* invocation has terminated meanwhile.
C20_FlagWhileAnyInFlight ==
    (\E i \in Invocations : pc[i] \notin {"idle", "done"})
    => isCalculatingRoute

====
